---- MODULE Spec2Model ----
(***************************************************************************)
(* Model of slang's compilation driver (Driver.cpp): command-line and      *)
(* command-file processing, option validation, option bag construction,    *)
(* source loading and the preprocessor modes.                              *)
(*                                                                         *)
(* std::optional<T> is modelled as a sequence: <<>> is "no value" and      *)
(* <<v>> holds v.  A directory is the sequence of its path components      *)
(* below the root.                                                         *)
(***************************************************************************)
EXTENDS Integers, Sequences, FiniteSets, TLC

VARIABLES
    argList,        \* the argument list handed to parseCommandLine
    fileText,       \* file system: the tokens of the source file /w/x.v
    pc,             \* position of the calling program: "start", "parsing", "parsed", "done"
    stack,          \* active cmdLine.parse calls, innermost last
    options,        \* Driver::options
    given,          \* options as bound by the command line (at parseCommandLine's return)
    cmdErrors,      \* cmdLine's error list
    anyFailedLoads, \* Driver::anyFailedLoads
    cwd,            \* process working directory
    stderr,         \* messages printed with OS::printE
    stdout,         \* tokens printed with OS::print by runPreprocessor
    srcFiles,       \* sourceLoader: files recorded by addFiles
    libFiles,       \* sourceLoader: files recorded by addLibraryFiles
    searchDirs,     \* sourceLoader: search directories
    searchExts,     \* sourceLoader: search extensions
    userDirs,       \* sourceManager: user include directories
    systemDirs,     \* sourceManager: system include directories
    diagClient,     \* diagClient: the display flags
    engine,         \* diagEngine: error limit and severity table
    calls,          \* number of processOptions calls made
    procOk,         \* return value of the last processOptions call
    result,         \* [fn, val]: the call that returned last and its value
    lastRet,        \* the processCommandFile call that returned last
    pushed,         \* sources in the order they were pushed on the preprocessor
    output,         \* tokens printed to the SyntaxPrinter by runPreprocessor
    obfuscationMap, \* runPreprocessor's identifier translation table at its return
    syntaxTrees     \* Driver::syntaxTrees

vars == <<argList, fileText, diagClient, pc, stack, options, given, cmdErrors, anyFailedLoads, cwd,
          stderr, stdout, srcFiles, libFiles, searchDirs, searchExts, userDirs,
          systemDirs, engine, calls, procOk, result, lastRet, pushed, output, obfuscationMap, syntaxTrees>>

-----------------------------------------------------------------------------
(* Bounds *)

\* longest argument list made of file arguments
MaxArgs == 2
\* most -W options on a command line
MaxW == 2
\* most processOptions calls in one run
MaxProcessCalls == 2
\* most tokens in a source file whose contents vary
MaxTokens == 4
\* most diagnostics a compilation reports
MaxDiags == 2

-----------------------------------------------------------------------------
(* std::optional *)

None == <<>>
Some(v) == <<v>>
has_value(o) == o # <<>>
value_or(o, d) == IF o = <<>> THEN d ELSE o[1]

-----------------------------------------------------------------------------
(* 32-bit numbers, kept as two 16-bit halves *)

U32(hi, lo) == [hi |-> hi, lo |-> lo]

\* uint32_t multiplication by two: the carry out of bit 31 is lost
TimesTwo(u) ==
    U32((u.hi * 2 + (u.lo * 2) \div 65536) % 65536, (u.lo * 2) % 65536)

\* the mathematical double of u is representable in 32 bits and equals d
IsTwice(d, u) == u.hi < 32768 /\ d = TimesTwo(u)

\* (int)u: the same 32 bits read as a signed number
IsNegativeInt(u) == u.hi >= 32768

-----------------------------------------------------------------------------
(* File system *)

InvocationDir == <<"w">>

\* std::filesystem lexical handling of "..": a parent reference removes the
\* component before it
RECURSIVE Normalize(_, _)
Normalize(done, todo) ==
    IF todo = <<>> THEN done
    ELSE IF Head(todo) = ".."
         THEN Normalize(IF done = <<>> THEN <<>> ELSE SubSeq(done, 1, Len(done) - 1),
                        Tail(todo))
         ELSE Normalize(Append(done, Head(todo)), Tail(todo))

\* the one symbolic link of the file system: /w/lnk.f -> /ext/e.f
FollowLinks(p) == IF p = <<"w", "lnk.f">> THEN <<"ext", "e.f">> ELSE p

\* command files that exist, by canonical path, with their arguments
Pos(d, f) == [opt |-> "positional", val |-> [dir |-> d, file |-> f]]
Opt(n, v) == [opt |-> n, val |-> v]
Unknown == [opt |-> "unknown", val |-> "--bogus"]

CmdFilePaths ==
    { <<"w", "a.f">>, <<"w", "sub", "n.f">>, <<"w", "sub", "in", "m.f">>,
      <<"w", "sub", "in", "k.f">>, <<"ext", "e.f">>, <<"w", "bad.f">>,
      <<"w", "sub", "err.f">> }

CmdFileArgs(p) ==
    CASE p = <<"w", "a.f">>              -> << Pos(<<>>, <<"x", "v">>) >>
      [] p = <<"w", "sub", "n.f">>       -> << Pos(<<>>, <<"y", "v">>),
                                               Opt("F", <<"in", "m.f">>) >>
      [] p = <<"w", "sub", "in", "m.f">> -> << Opt("f", <<"k.f">>),
                                               Pos(<<>>, <<"z", "v">>) >>
      [] p = <<"w", "sub", "in", "k.f">> -> << Pos(<<>>, <<"k", "v">>) >>
      [] p = <<"ext", "e.f">>            -> << Pos(<<>>, <<"e", "v">>) >>
      [] p = <<"w", "bad.f">>            -> << Unknown, Pos(<<>>, <<"x", "v">>) >>
      [] p = <<"w", "sub", "err.f">>     -> << Opt("F", <<"..", "bad.f">>),
                                               Pos(<<>>, <<"y", "v">>) >>
      [] OTHER                           -> << >>

\* source files that can be read, as [dir, file]
SourcePaths ==
    { [dir |-> <<"w">>, file |-> <<"x", "v">>],
      [dir |-> <<"w", "sub">>, file |-> <<"y", "v">>],
      [dir |-> <<"w", "sub", "in">>, file |-> <<"z", "v">>],
      [dir |-> <<"w", "sub", "in">>, file |-> <<"k", "v">>],
      [dir |-> <<"ext">>, file |-> <<"e", "v">>] }

\* a token as the lexer produces it
Tok(kind, text) == [kind |-> kind, text |-> text]

\* the contents of /w/x.v unless a run varies them
XText == << Tok("Identifier", "m"), Tok("IntegerBase", "'b"), Tok("Identifier", "x1") >>

\* directories that exist
Directories ==
    { <<"w">>, <<"w", "sub">>, <<"w", "sub", "in">>, <<"ext">>, <<"w", "inc">> }

\* fs::canonical(fileName, ec): the absolute path with links followed
canonical(dir, fileName) == FollowLinks(Normalize(dir, fileName))

parent_path(p) == SubSeq(p, 1, Len(p) - 1)

-----------------------------------------------------------------------------
(* Options and the option schema *)

\* Driver::Options after construction: every optional empty, every list empty
NoOptions ==
    [ compat |-> None, minTypMax |-> None, timeScale |-> None,
      librariesInheritMacros |-> None, singleUnit |-> None, onlyLint |-> None,
      ignoreUnknownModules |-> None, allowHierarchicalConst |-> None,
      allowUseBeforeDeclare |-> None, relaxEnumConversions |-> None,
      errorLimit |-> None, colorDiags |-> None,
      diagColumn |-> None, diagLocation |-> None, diagSourceLine |-> None,
      diagOptionName |-> None, diagIncludeStack |-> None,
      diagMacroExpansion |-> None, diagHierarchy |-> None,
      suppressWarningsPaths |-> <<>>, suppressMacroWarningsPaths |-> <<>>,
      includeDirs |-> <<>>, includeSystemDirs |-> <<>>, libraryFiles |-> <<>>,
      libDirs |-> <<>>, libExts |-> <<>>, warningOptions |-> <<>>,
      excludeExts |-> {} ]

\* options bound to a std::optional destination
ScalarOptions ==
    { "compat", "minTypMax", "timeScale", "librariesInheritMacros", "singleUnit",
      "onlyLint", "ignoreUnknownModules", "allowHierarchicalConst",
      "allowUseBeforeDeclare", "relaxEnumConversions", "errorLimit", "colorDiags",
      "diagColumn", "diagLocation", "diagSourceLine", "diagOptionName",
      "diagIncludeStack", "diagMacroExpansion", "diagHierarchy" }

\* options bound to a std::vector destination
ListOptions ==
    { "includeDirs", "includeSystemDirs", "libraryFiles", "libDirs", "libExts",
      "warningOptions", "suppressWarningsPaths", "suppressMacroWarningsPaths" }

\* binding of one option value: a list accumulates, a scalar is set once
BindOption(o, a) ==
    IF a.opt \in ListOptions THEN [o EXCEPT ![a.opt] = Append(@, a.val)]
    ELSE IF has_value(o[a.opt]) THEN o
    ELSE [o EXCEPT ![a.opt] = Some(a.val)]

\* a second value for a scalar is an error unless the parse ignores duplicates
BindErrors(o, a, ignoreDuplicates) ==
    IF a.opt \in ScalarOptions /\ has_value(o[a.opt]) /\ ~ignoreDuplicates
    THEN << <<"more than one value provided for argument", a.opt>> >>
    ELSE << >>

-----------------------------------------------------------------------------
(* Argument lists *)

Bools == {TRUE, FALSE}

Choice(n, vals) == { <<>> } \cup { << Opt(n, v) >> : v \in vals }

GoodTimeScale == <<"1", "ns", "/", "10", "ps">>
BadTimeScales == { <<"1", "ns">>, <<"5", "ns", "/", "1", "ps">> }

ReadableFile == << Pos(<<>>, <<"x", "v">>) >>

SearchArgs ==
    << Opt("includeDirs", <<"inc">>), Opt("includeDirs", <<"noinc">>),
       Opt("includeSystemDirs", <<"nosys">>), Opt("includeSystemDirs", <<"sub">>),
       Opt("libraryFiles", [dir |-> <<>>, file |-> <<"lib", "v">>]),
       Opt("libDirs", <<"sub">>), Opt("libExts", "sv") >>

\* validation: enumerated values and the single-unit invariant
ValidationArgs ==
    { a \o b \o c \o d \o e \o f \o g :
        a \in Choice("compat", {"vcs", "foo"}),
        b \in Choice("minTypMax", {"min", "typ", "max", "fast"}),
        c \in Choice("timeScale", {GoodTimeScale} \cup BadTimeScales),
        d \in Choice("librariesInheritMacros", Bools),
        e \in Choice("singleUnit", Bools),
        f \in { <<>>, SearchArgs },
        g \in { <<>>, ReadableFile } }

\* compatibility profile and lint mode
ProfileArgs ==
    { a \o b \o c \o d \o e \o f \o ReadableFile :
        a \in Choice("compat", {"vcs"}),
        b \in Choice("allowHierarchicalConst", Bools),
        c \in Choice("allowUseBeforeDeclare", Bools),
        d \in Choice("relaxEnumConversions", Bools),
        e \in Choice("onlyLint", Bools),
        f \in Choice("ignoreUnknownModules", Bools) }

\* --error-limit values, as 32-bit unsigned numbers
LimitArgs ==
    { a \o b \o ReadableFile :
        a \in Choice("errorLimit", { U32(0, 0), U32(0, 1), U32(0, 20), U32(0, 65535),
                                     U32(32767, 65535), U32(32768, 0),
                                     U32(32768, 5), U32(65535, 65535) }),
        b \in Choice("onlyLint", Bools) }

\* -W options: <<prefix, name>> for -W<prefix><name>
WarningNames == {"DuplicateDefinition", "ImplicitConvert", "IndexOOB"}
WarningOptionValues ==
    ({"", "no-", "error="} \X WarningNames) \cup { <<"", "bogus">> }

RECURSIVE SeqsUpTo(_, _)
SeqsUpTo(S, n) ==
    IF n = 0 THEN { <<>> }
    ELSE LET shorter == SeqsUpTo(S, n - 1)
         IN  shorter \cup { Append(s, x) : s \in shorter, x \in S }

WarningArgs ==
    { a \o w \o ReadableFile :
        a \in Choice("compat", {"vcs"}),
        w \in SeqsUpTo({ Opt("warningOptions", v) : v \in WarningOptionValues }, MaxW) }

\* positional files and command files
FileAlphabet ==
    { Pos(<<>>, <<"x", "v">>), Pos(<<>>, <<"gone", "v">>), Unknown,
      Opt("excludeExts", "v") }
    \cup { Opt(k, p) : k \in {"f", "F"}, p \in { <<"sub", "n.f">>, <<"lnk.f">> } }
    \cup { Opt("f", <<"a.f">>), Opt("f", <<"bad.f">>), Opt("f", <<"nope.f">>),
           Opt("F", <<"sub", "err.f">>) }

FileArgs == SeqsUpTo(FileAlphabet, MaxArgs)

\* display flags of the diagnostics and warning-suppression paths
DisplayArgs ==
    { a \o b \o c \o d \o e \o f :
        a \in Choice("colorDiags", {TRUE}),
        b \in Choice("diagColumn", Bools),
        c \in Choice("diagHierarchy", {FALSE}),
        d \in { <<>>, << Opt("suppressWarningsPaths", <<"nodir">>),
                         Opt("suppressWarningsPaths", <<"sub", "..", "inc">>) >> },
        e \in Choice("suppressMacroWarningsPaths", { <<"sub">> }),
        f \in { <<>>, ReadableFile, << Opt("f", <<"nope.f">>) >> } }

ArgLists ==
    ValidationArgs \cup ProfileArgs \cup LimitArgs \cup WarningArgs \cup FileArgs
        \cup DisplayArgs

-----------------------------------------------------------------------------
(* Diagnostic engine *)

DiagKinds ==
    { "DuplicateDefinition", "BadProceduralForce",
      "StaticInitializerMustBeExplicit", "ImplicitConvert", "BadFinishNum",
      "NonstandardSysFunc", "NonstandardForeach", "NonstandardDist",
      "IndexOOB", "RangeOOB", "RangeWidthOOB", "ImplicitNamedPortTypeMismatch",
      "SplitDistWeightOp", "UnusedDefinition" }

\* compiled default severity of the modelled diagnostics: all are warnings
DefaultSeverities == [d \in DiagKinds |-> "Warning"]

\* the display flags of the diagnostic client as constructed
DefaultDisplay ==
    [ showColors |-> FALSE, showColumn |-> TRUE, showLocation |-> TRUE,
      showSourceLine |-> TRUE, showOptionName |-> TRUE, showIncludeStack |-> TRUE,
      showMacroExpansion |-> TRUE, showHierarchyInstance |-> TRUE ]

\* the diagnostic engine as constructed
NewEngine ==
    [ errorLimit |-> U32(0, 0), severity |-> DefaultSeverities, issued |-> <<>>,
      numErrors |-> 0, numWarnings |-> 0, ignorePaths |-> <<>>,
      ignoreMacroPaths |-> <<>> ]

NoResult == [fn |-> "none", val |-> FALSE]
NoReturn == [made |-> FALSE, rel |-> FALSE, ok |-> FALSE, entry |-> <<>>,
             parsedIn |-> <<>>, exit |-> <<>>, depth |-> 0]

-----------------------------------------------------------------------------
(* Initial state: a constructed Driver and the argument list it will be given *)

\* the Driver as constructed, in the invocation directory
Constructed ==
    /\ pc = "start"
    /\ stack = <<>>
    /\ options = NoOptions
    /\ given = NoOptions
    /\ cmdErrors = <<>>
    /\ anyFailedLoads = FALSE
    /\ cwd = InvocationDir
    /\ stderr = <<>>
    /\ stdout = <<>>
    /\ srcFiles = <<>>
    /\ libFiles = <<>>
    /\ searchDirs = <<>>
    /\ searchExts = <<>>
    /\ userDirs = <<>>
    /\ systemDirs = <<>>
    /\ engine = NewEngine
    /\ diagClient = DefaultDisplay
    /\ calls = 0
    /\ procOk = FALSE
    /\ result = NoResult
    /\ lastRet = NoReturn
    /\ pushed = <<>>
    /\ output = <<>>
    /\ obfuscationMap = <<>>
    /\ syntaxTrees = <<>>

Init ==
    /\ argList \in ArgLists
    /\ fileText = XText
    /\ Constructed

-----------------------------------------------------------------------------
(* Command line and command files *)

Top == stack[Len(stack)]
\* the innermost parse moves on to its next argument
Advance == [stack EXCEPT ![Len(stack)].rest = Tail(@)]
Parsing == pc = "parsing" /\ stack # <<>>
NextArg == Head(Top.rest)

\* printError / printWarning
ErrorLine(msg) == <<"error: ", msg>>
WarningLine(msg) == <<"warning: ", msg>>
\* the loop printing cmdLine.getErrors()
ErrorLines(errs) == [i \in 1..Len(errs) |-> <<"", errs[i]>>]

\* parseCommandLine is entered: cmdLine.parse starts on the argument list
BeginParse ==
    /\ pc = "start"
    /\ pc' = "parsing"
    /\ stack' = << [rest |-> argList, isFile |-> FALSE, rel |-> FALSE,
                    path |-> <<>>, currPath |-> <<>>, entry |-> cwd] >>
    /\ UNCHANGED <<argList, fileText, diagClient, options, given, cmdErrors, anyFailedLoads, cwd, stderr,
                   stdout, srcFiles, libFiles, searchDirs, searchExts, userDirs,
                   systemDirs, engine, calls, procOk, result, lastRet, pushed, output, obfuscationMap, syntaxTrees>>

\* the extension the positional callback looks up: the text after the last '.'
HasExtension(filePattern) == Len(filePattern.file) > 1
Extension(filePattern) == filePattern.file[Len(filePattern.file)]

Excluded(o, filePattern) ==
    /\ o.excludeExts # {}
    /\ HasExtension(filePattern)
    /\ Extension(filePattern) \in o.excludeExts

\* sourceLoader.addFiles: the file is recorded as seen from the working directory
addFiles(files, dir, filePattern) ==
    Append(files, [dir |-> Normalize(dir, filePattern.dir), file |-> filePattern.file])

\* the positional callback
PositionalArg ==
    /\ Parsing /\ Top.rest # <<>> /\ NextArg.opt = "positional"
    /\ srcFiles' = IF Excluded(options, NextArg.val) THEN srcFiles
                   ELSE addFiles(srcFiles, cwd, NextArg.val)
    /\ stack' = Advance
    /\ UNCHANGED <<argList, fileText, diagClient, pc, options, given, cmdErrors, anyFailedLoads, cwd, stderr,
                   stdout, libFiles, searchDirs, searchExts, userDirs, systemDirs,
                   engine, calls, procOk, result, lastRet, pushed, output, obfuscationMap, syntaxTrees>>

\* an option bound to a field of Driver::options
OptionArg ==
    /\ Parsing /\ Top.rest # <<>>
    /\ NextArg.opt \in ScalarOptions \cup ListOptions
    /\ options' = BindOption(options, NextArg)
    /\ cmdErrors' = cmdErrors \o BindErrors(options, NextArg, Top.isFile)
    /\ stack' = Advance
    /\ UNCHANGED <<argList, fileText, diagClient, pc, given, anyFailedLoads, cwd, stderr, stdout, srcFiles,
                   libFiles, searchDirs, searchExts, userDirs, systemDirs, engine,
                   calls, procOk, result, lastRet, pushed, output, obfuscationMap, syntaxTrees>>

\* --exclude-ext
ExcludeExtArg ==
    /\ Parsing /\ Top.rest # <<>> /\ NextArg.opt = "excludeExts"
    /\ options' = [options EXCEPT !.excludeExts = @ \cup {NextArg.val}]
    /\ stack' = Advance
    /\ UNCHANGED <<argList, fileText, diagClient, pc, given, cmdErrors, anyFailedLoads, cwd, stderr, stdout,
                   srcFiles, libFiles, searchDirs, searchExts, userDirs, systemDirs,
                   engine, calls, procOk, result, lastRet, pushed, output, obfuscationMap, syntaxTrees>>

\* an option the schema does not know
UnknownArg ==
    /\ Parsing /\ Top.rest # <<>> /\ NextArg.opt = "unknown"
    /\ cmdErrors' = Append(cmdErrors, <<"unknown command line argument", NextArg.val>>)
    /\ stack' = Advance
    /\ UNCHANGED <<argList, fileText, diagClient, pc, options, given, anyFailedLoads, cwd, stderr, stdout,
                   srcFiles, libFiles, searchDirs, searchExts, userDirs, systemDirs,
                   engine, calls, procOk, result, lastRet, pushed, output, obfuscationMap, syntaxTrees>>

IsCommandFileArg == Parsing /\ Top.rest # <<>> /\ NextArg.opt \in {"f", "F"}
makeRelative(a) == a.opt = "F"

\* the directory processCommandFile parses the file's contents in
ParseDirNoLinks(dir, fileName, rel) ==
    IF rel THEN parent_path(Normalize(dir, fileName)) ELSE dir
ParseDir(dir, fileName, rel) ==
    IF rel THEN parent_path(canonical(dir, fileName)) ELSE dir

\* the directory processCommandFile leaves the process in
RestoredDirNoRestore(dir, frame) == dir
RestoredDir(dir, frame) == IF frame.rel THEN frame.currPath ELSE dir

\* -f / -F on a file that cannot be found or read: processCommandFile returns
\* false at once and the callback sets anyFailedLoads
CommandFileMissing ==
    /\ IsCommandFileArg
    /\ canonical(cwd, NextArg.val) \notin CmdFilePaths
    /\ stderr' = Append(stderr, ErrorLine(<<"unable to find or open file", NextArg.val>>))
    /\ anyFailedLoads' = TRUE
    /\ lastRet' = [made |-> TRUE, rel |-> makeRelative(NextArg), ok |-> FALSE,
                   entry |-> cwd, parsedIn |-> cwd, exit |-> cwd,
                   depth |-> Len(stack)]
    /\ stack' = Advance
    /\ UNCHANGED <<argList, fileText, diagClient, pc, options, given, cmdErrors, cwd, stdout, srcFiles,
                   libFiles, searchDirs, searchExts, userDirs, systemDirs, engine,
                   calls, procOk, result, pushed, output, obfuscationMap, syntaxTrees>>

\* -f / -F on a readable file: processCommandFile changes directory for -F and
\* re-enters cmdLine.parse on the file's contents
CommandFileOpen ==
    /\ IsCommandFileArg
    /\ canonical(cwd, NextArg.val) \in CmdFilePaths
    /\ cwd' = ParseDir(cwd, NextArg.val, makeRelative(NextArg))
    /\ stack' = Append(Advance,
                       [rest |-> CmdFileArgs(canonical(cwd, NextArg.val)),
                        isFile |-> TRUE, rel |-> makeRelative(NextArg),
                        path |-> canonical(cwd, NextArg.val),
                        currPath |-> IF makeRelative(NextArg) THEN cwd ELSE <<>>,
                        entry |-> cwd])
    /\ UNCHANGED <<argList, fileText, diagClient, pc, options, given, cmdErrors, anyFailedLoads, stderr,
                   stdout, srcFiles, libFiles, searchDirs, searchExts, userDirs,
                   systemDirs, engine, calls, procOk, result, lastRet, pushed, output, obfuscationMap, syntaxTrees>>

\* cmdLine.parse returns whether the error list is empty
parseResult(errs) == errs = <<>>

\* the re-parse of a command file returns: the directory is restored, the errors
\* are printed on failure, and the callback sets anyFailedLoads on failure
CommandFileReturn ==
    /\ Parsing /\ Top.rest = <<>> /\ Top.isFile
    /\ cwd' = RestoredDir(cwd, Top)
    /\ stderr' = IF parseResult(cmdErrors) THEN stderr
                 ELSE stderr \o ErrorLines(cmdErrors)
    /\ anyFailedLoads' = (anyFailedLoads \/ ~parseResult(cmdErrors))
    /\ lastRet' = [made |-> TRUE, rel |-> Top.rel, ok |-> parseResult(cmdErrors),
                   entry |-> Top.entry, parsedIn |-> cwd, exit |-> cwd',
                   depth |-> Len(stack) - 1]
    /\ stack' = SubSeq(stack, 1, Len(stack) - 1)
    /\ UNCHANGED <<argList, fileText, diagClient, pc, options, given, cmdErrors, stdout, srcFiles, libFiles,
                   searchDirs, searchExts, userDirs, systemDirs, engine, calls,
                   procOk, result, pushed, output, obfuscationMap, syntaxTrees>>

\* parseCommandLine's return value
parseCommandLineResult(errs, failed) ==
    IF ~parseResult(errs) THEN FALSE ELSE ~failed

\* the outermost parse returns and with it parseCommandLine
ParseReturn ==
    /\ Parsing /\ Top.rest = <<>> /\ ~Top.isFile
    /\ stderr' = IF parseResult(cmdErrors) THEN stderr
                 ELSE stderr \o ErrorLines(cmdErrors)
    /\ result' = [fn |-> "parseCommandLine",
                  val |-> parseCommandLineResult(cmdErrors, anyFailedLoads)]
    /\ stack' = <<>>
    /\ pc' = "parsed"
    /\ given' = options
    /\ UNCHANGED <<argList, fileText, diagClient, cmdErrors, anyFailedLoads, cwd, options, stdout, srcFiles,
                   libFiles, searchDirs, searchExts, userDirs, systemDirs, engine,
                   calls, procOk, lastRet, pushed, output, obfuscationMap, syntaxTrees>>

ParseStep ==
    \/ BeginParse
    \/ PositionalArg
    \/ OptionArg
    \/ ExcludeExtArg
    \/ UnknownArg
    \/ CommandFileMissing
    \/ CommandFileOpen
    \/ CommandFileReturn
    \/ ParseReturn

-----------------------------------------------------------------------------
(* processOptions: validation *)

\* the vcs profile: each of the three options becomes true unless it has a value
ApplyVcsOverwriting(o) ==
    [o EXCEPT !.allowHierarchicalConst = Some(TRUE),
              !.allowUseBeforeDeclare = Some(TRUE),
              !.relaxEnumConversions = Some(TRUE)]
ApplyVcs(o) ==
    [o EXCEPT !.allowHierarchicalConst = IF has_value(@) THEN @ ELSE Some(TRUE),
              !.allowUseBeforeDeclare = IF has_value(@) THEN @ ELSE Some(TRUE),
              !.relaxEnumConversions = IF has_value(@) THEN @ ELSE Some(TRUE)]

\* the time-scale grammar <base>/<precision>: a magnitude of 1, 10 or 100 and a unit
TimeMagnitudes == {"1", "10", "100"}
TimeUnits == {"s", "ms", "us", "ns", "ps", "fs"}
fromString(str) ==
    IF /\ Len(str) = 5
       /\ str[1] \in TimeMagnitudes /\ str[2] \in TimeUnits
       /\ str[3] = "/"
       /\ str[4] \in TimeMagnitudes /\ str[5] \in TimeUnits
    THEN Some([base |-> <<str[1], str[2]>>, precision |-> <<str[4], str[5]>>])
    ELSE None

CompatInvalid(o) == has_value(o.compat) /\ o.compat # Some("vcs")

TimingInvalid(o) ==
    /\ has_value(o.minTypMax)
    /\ o.minTypMax # Some("min") /\ o.minTypMax # Some("typ") /\ o.minTypMax # Some("max")

SingleUnitNotChecked(o) == FALSE
SingleUnitViolation(o) ==
    o.librariesInheritMacros = Some(TRUE) /\ ~value_or(o.singleUnit, FALSE)

TimeScaleInvalid(o) == has_value(o.timeScale) /\ ~has_value(fromString(o.timeScale[1]))

\* the message of the first check that fails, in the order processOptions makes
\* them; <<>> when all pass
ValidationError(o) ==
    IF CompatInvalid(o)
    THEN <<"invalid value for compat option", o.compat[1]>>
    ELSE IF TimingInvalid(o)
    THEN <<"invalid value for timing option", o.minTypMax[1]>>
    ELSE IF SingleUnitViolation(o)
    THEN <<"--single-unit must be set when --libraries-inherit-macros is used">>
    ELSE IF TimeScaleInvalid(o)
    THEN <<"invalid value for time scale option", o.timeScale[1]>>
    ELSE <<>>

\* options as the compat block leaves them
AfterCompat(o) == IF o.compat = Some("vcs") THEN ApplyVcs(o) ELSE o

\* lint-only makes ignore-unknown-modules true unless it has a value
LintDefaultsOverwriting(o) ==
    IF o.onlyLint = Some(TRUE)
    THEN [o EXCEPT !.ignoreUnknownModules = Some(TRUE)]
    ELSE o
LintDefaults(o) ==
    IF o.onlyLint = Some(TRUE) /\ ~has_value(o.ignoreUnknownModules)
    THEN [o EXCEPT !.ignoreUnknownModules = Some(TRUE)]
    ELSE o

-----------------------------------------------------------------------------
(* processOptions: registration with the source manager and source loader *)

\* addUserDirectory / addSystemDirectory succeed on a directory that exists
DirExists(base, dir) == Normalize(base, dir) \in Directories

\* the loops calling addUserDirectory / addSystemDirectory for every directory
RECURSIVE addDirectoriesStopAtMissing(_, _, _)
addDirectoriesStopAtMissing(registered, base, dirs) ==
    IF dirs = <<>> \/ ~DirExists(base, Head(dirs)) THEN registered
    ELSE addDirectoriesStopAtMissing(Append(registered, Normalize(base, Head(dirs))),
                                     base, Tail(dirs))
RECURSIVE addDirectories(_, _, _)
addDirectories(registered, base, dirs) ==
    IF dirs = <<>> THEN registered
    ELSE addDirectories(IF DirExists(base, Head(dirs))
                        THEN Append(registered, Normalize(base, Head(dirs)))
                        ELSE registered,
                        base, Tail(dirs))

RECURSIVE MissingDirWarnings(_, _)
MissingDirWarnings(base, dirs) ==
    IF dirs = <<>> THEN <<>>
    ELSE (IF DirExists(base, Head(dirs)) THEN <<>>
          ELSE << WarningLine(<<"include directory does not exist", Head(dirs)>>) >>)
         \o MissingDirWarnings(base, Tail(dirs))

RECURSIVE addLibraryFiles(_, _, _)
addLibraryFiles(files, base, strs) ==
    IF strs = <<>> THEN files
    ELSE addLibraryFiles(addFiles(files, base, Head(strs)), base, Tail(strs))

\* sourceLoader.hasFiles(): library files count as files
hasFiles(files, libs) == files # <<>> \/ libs # <<>>

-----------------------------------------------------------------------------
(* processOptions: diagnostic engine *)

DefaultErrorLimit == U32(0, 20)

setSeverity(table, code, severity) == [table EXCEPT ![code] = severity]

RECURSIVE setSeverities(_, _, _)
setSeverities(table, codes, severity) ==
    IF codes = <<>> THEN table
    ELSE setSeverities(setSeverity(table, Head(codes), severity), Tail(codes), severity)

setDefaultWarnings(table) == DefaultSeverities

MandatoryCodes == <<"DuplicateDefinition", "BadProceduralForce">>
VcsCodes ==
    <<"StaticInitializerMustBeExplicit", "ImplicitConvert", "BadFinishNum",
      "NonstandardSysFunc", "NonstandardForeach", "NonstandardDist">>
PromotedCodes ==
    <<"IndexOOB", "RangeOOB", "RangeWidthOOB", "ImplicitNamedPortTypeMismatch",
      "SplitDistWeightOp">>

\* -W<name>: warning, -Wno-<name>: ignored, -Werror=<name>: error
SeverityOf(prefix) ==
    IF prefix = "no-" THEN "Ignored" ELSE IF prefix = "error=" THEN "Error" ELSE "Warning"

RECURSIVE setWarningOptions(_, _)
setWarningOptions(table, opts) ==
    IF opts = <<>> THEN table
    ELSE setWarningOptions(
             IF Head(opts)[2] \in DiagKinds
             THEN setSeverity(table, Head(opts)[2], SeverityOf(Head(opts)[1]))
             ELSE table,
             Tail(opts))

\* the diagnostics setWarningOptions returns: one for each unknown name
RECURSIVE optionDiags(_)
optionDiags(opts) ==
    IF opts = <<>> THEN <<>>
    ELSE (IF Head(opts)[2] \in DiagKinds THEN <<>>
          ELSE << <<"UnknownWarningOption", Head(opts)[2]>> >>)
         \o optionDiags(Tail(opts))

\* the overrides processOptions applies on top of the default warnings
DriverOverridesBothGroups(table, o) ==
    setSeverities(setSeverities(setSeverities(table, MandatoryCodes, "Error"),
                                VcsCodes, "Ignored"),
                  PromotedCodes, "Error")
DriverOverrides(table, o) ==
    LET mandatory == setSeverities(table, MandatoryCodes, "Error")
    IN  IF o.compat = Some("vcs")
        THEN setSeverities(mandatory, VcsCodes, "Ignored")
        ELSE setSeverities(mandatory, PromotedCodes, "Error")

\* the severity table processOptions leaves in the engine
SeverityTableUserFirst(table, o) ==
    DriverOverrides(setWarningOptions(setDefaultWarnings(table), o.warningOptions), o)
SeverityTable(table, o) ==
    setWarningOptions(DriverOverrides(setDefaultWarnings(table), o), o.warningOptions)

\* the severity the engine gives a diagnostic: that of its table, and warning
\* for the diagnostics about the options themselves
getSeverity(e, diag) ==
    IF diag[1] \in DiagKinds THEN e.severity[diag[1]] ELSE "Warning"

\* diagEngine.issue: an ignored diagnostic is dropped, any other is counted and
\* handed to the client
issue(e, diag) ==
    IF getSeverity(e, diag) = "Ignored" THEN e
    ELSE [e EXCEPT !.issued = Append(@, diag),
                   !.numErrors = @ + (IF getSeverity(e, diag) = "Error" THEN 1 ELSE 0),
                   !.numWarnings = @ + (IF getSeverity(e, diag) = "Warning" THEN 1 ELSE 0)]

RECURSIVE issueAll(_, _)
issueAll(e, diags) ==
    IF diags = <<>> THEN e ELSE issueAll(issue(e, Head(diags)), Tail(diags))

\* a path fs::canonical can resolve: it names something that exists
PathExists(p) == p \in Directories \cup CmdFilePaths

\* the loops over the suppression paths: a path that cannot be canonicalized
\* comes back empty and is not registered
RECURSIVE addIgnorePaths(_, _, _)
addIgnorePaths(paths, base, strs) ==
    IF strs = <<>> THEN paths
    ELSE addIgnorePaths(IF PathExists(canonical(base, Head(strs)))
                        THEN Append(paths, canonical(base, Head(strs)))
                        ELSE paths,
                        base, Tail(strs))

ConfiguredEngine(e, o) ==
    issueAll([e EXCEPT !.errorLimit = value_or(o.errorLimit, DefaultErrorLimit),
                       !.severity = SeverityTable(e.severity, o),
                       !.ignorePaths = addIgnorePaths(@, cwd, o.suppressWarningsPaths),
                       !.ignoreMacroPaths =
                           addIgnorePaths(@, cwd, o.suppressMacroWarningsPaths)],
             optionDiags(o.warningOptions))

\* OS::fileSupportsColors(stderr) in the modelled environment
StderrSupportsColors == FALSE

\* the display flags processOptions sets on the diagnostic client
ConfiguredClient(o) ==
    [ showColors |-> value_or(o.colorDiags, StderrSupportsColors),
      showColumn |-> value_or(o.diagColumn, TRUE),
      showLocation |-> value_or(o.diagLocation, TRUE),
      showSourceLine |-> value_or(o.diagSourceLine, TRUE),
      showOptionName |-> value_or(o.diagOptionName, TRUE),
      showIncludeStack |-> value_or(o.diagIncludeStack, TRUE),
      showMacroExpansion |-> value_or(o.diagMacroExpansion, TRUE),
      showHierarchyInstance |-> value_or(o.diagHierarchy, TRUE) ]

\* what processOptions prints when it stops after the registrations: nothing
\* when a load has failed, the "no input files" error otherwise
NoInputLinesSilent(failed) == <<>>
NoInputLines(failed) ==
    IF failed THEN <<>> ELSE << ErrorLine(<<"no input files">>) >>

-----------------------------------------------------------------------------
(* processOptions *)

CanProcess == pc = "parsed" /\ calls < MaxProcessCalls

\* a validation check fails: the error is printed and nothing is registered
ProcessOptionsInvalid ==
    /\ CanProcess
    /\ ValidationError(options) # <<>>
    /\ options' = AfterCompat(options)
    /\ stderr' = Append(stderr, ErrorLine(ValidationError(options)))
    /\ result' = [fn |-> "processOptions", val |-> FALSE]
    /\ procOk' = FALSE
    /\ calls' = calls + 1
    /\ UNCHANGED <<argList, fileText, diagClient, pc, stack, given, cmdErrors, anyFailedLoads, cwd, stdout,
                   srcFiles, libFiles, searchDirs, searchExts, userDirs, systemDirs,
                   engine, lastRet, pushed, output, obfuscationMap, syntaxTrees>>

\* what every call that passes validation does before it looks at the loads
Registered ==
    /\ options' = LintDefaults(AfterCompat(options))
    /\ userDirs' = addDirectories(userDirs, cwd, options.includeDirs)
    /\ systemDirs' = addDirectories(systemDirs, cwd, options.includeSystemDirs)
    /\ libFiles' = addLibraryFiles(libFiles, cwd, options.libraryFiles)
    /\ searchDirs' = searchDirs \o options.libDirs
    /\ searchExts' = searchExts \o options.libExts
    /\ calls' = calls + 1

DirWarnings ==
    MissingDirWarnings(cwd, options.includeDirs)
        \o MissingDirWarnings(cwd, options.includeSystemDirs)

\* validation passes but a load has failed or there is nothing to load
ProcessOptionsNoInput ==
    /\ CanProcess
    /\ ValidationError(options) = <<>>
    /\ Registered
    /\ anyFailedLoads \/ ~hasFiles(srcFiles, libFiles')
    /\ stderr' = stderr \o DirWarnings \o NoInputLines(anyFailedLoads)
    /\ result' = [fn |-> "processOptions", val |-> FALSE]
    /\ procOk' = FALSE
    /\ UNCHANGED <<argList, fileText, diagClient, pc, stack, given, cmdErrors, anyFailedLoads, cwd, stdout,
                   srcFiles, engine, lastRet, pushed, output, obfuscationMap, syntaxTrees>>

\* the call succeeds: the diagnostic engine is configured
ProcessOptionsOk ==
    /\ CanProcess
    /\ ValidationError(options) = <<>>
    /\ Registered
    /\ ~anyFailedLoads /\ hasFiles(srcFiles, libFiles')
    /\ stderr' = stderr \o DirWarnings
    /\ diagClient' = ConfiguredClient(options')
    /\ engine' = ConfiguredEngine(engine, options')
    /\ result' = [fn |-> "processOptions", val |-> TRUE]
    /\ procOk' = TRUE
    /\ UNCHANGED <<argList, fileText, pc, stack, given, cmdErrors, anyFailedLoads, cwd, stdout,
                   srcFiles, lastRet, pushed, output, obfuscationMap, syntaxTrees>>

ProcessOptions ==
    \/ ProcessOptionsInvalid
    \/ ProcessOptionsNoInput
    \/ ProcessOptionsOk

-----------------------------------------------------------------------------
(* createOptionBag *)

\* A flag of a sub-bag is TRUE when createOptionBag sets it and FALSE when it
\* leaves it as constructed; errorLimit is None when it is left as constructed.
createOptionBag(o) ==
    [ soptions |->
        [ singleUnit |-> (o.singleUnit = Some(TRUE)),
          onlyLint |-> (o.onlyLint = Some(TRUE)),
          librariesInheritMacros |-> (o.librariesInheritMacros = Some(TRUE)) ],
      coptions |->
        [ errorLimit |-> IF has_value(o.errorLimit) THEN Some(TimesTwo(o.errorLimit[1]))
                         ELSE None,
          suppressUnused |-> (o.onlyLint = Some(TRUE)),
          lintMode |-> (o.onlyLint = Some(TRUE)),
          allowHierarchicalConst |-> (o.allowHierarchicalConst = Some(TRUE)),
          relaxEnumConversions |-> (o.relaxEnumConversions = Some(TRUE)),
          ignoreUnknownModules |-> (o.ignoreUnknownModules = Some(TRUE)),
          allowUseBeforeDeclare |-> (o.allowUseBeforeDeclare = Some(TRUE)),
          minTypMax |-> IF o.minTypMax \in {Some("min"), Some("typ"), Some("max")}
                        THEN o.minTypMax ELSE None,
          defaultTimeScale |-> IF has_value(o.timeScale) THEN fromString(o.timeScale[1])
                               ELSE None ] ]

\* Driver::options after a call: createOptionBag is a const member function
optionsAfterBagAppliesLint(o) == LintDefaultsOverwriting(o)
optionsAfterBag(o) == o

\* a call of createOptionBag by the program
CreateOptionBag ==
    /\ pc = "parsed"
    /\ result' = [fn |-> "createOptionBag", val |-> createOptionBag(options)]
    /\ options' = optionsAfterBag(options)
    /\ UNCHANGED <<argList, fileText, diagClient, pc, stack, given, cmdErrors, anyFailedLoads, cwd,
                   stderr, stdout, srcFiles, libFiles, searchDirs, searchExts,
                   userDirs, systemDirs, engine, calls, procOk, lastRet, pushed, output, obfuscationMap, syntaxTrees>>

-----------------------------------------------------------------------------
(* Source loading *)

\* contents of the readable source files, as token kinds and texts
SourceText(f) ==
    CASE f = [dir |-> <<"w">>, file |-> <<"x", "v">>] -> fileText
      [] f = [dir |-> <<"w", "sub">>, file |-> <<"y", "v">>] ->
             << Tok("Identifier", "m"), Tok("Semicolon", ";") >>
      [] f = [dir |-> <<"w", "sub", "in">>, file |-> <<"z", "v">>] ->
             << Tok("IntegerBase", "'h") >>
      [] f = [dir |-> <<"w", "sub", "in">>, file |-> <<"k", "v">>] ->
             << Tok("Identifier", "k") >>
      [] f = [dir |-> <<"ext">>, file |-> <<"e", "v">>] ->
             << Tok("Identifier", "x1"), Tok("IntegerLiteral", "1") >>
      [] OTHER -> << >>

\* diagnostics the preprocessor reports for a source file
SourceDiags(f) ==
    CASE f = [dir |-> <<"ext">>, file |-> <<"e", "v">>] -> << "error" >>
      [] f = [dir |-> <<"w", "sub">>, file |-> <<"y", "v">>] -> << "warning" >>
      [] OTHER -> << >>

Readable(f) == f \in SourcePaths

\* sourceLoader.loadSources(): a buffer for every file that can be read, in the
\* order the files were recorded
loadSources(files) == SelectSeq(files, Readable)

\* onLoadError for every file that cannot be read
RECURSIVE LoadErrors(_)
LoadErrors(files) ==
    IF files = <<>> THEN <<>>
    ELSE (IF Readable(Head(files)) THEN <<>>
          ELSE << ErrorLine(<<"unable to load file", Head(files)>>) >>)
         \o LoadErrors(Tail(files))

AllFiles == srcFiles \o libFiles

-----------------------------------------------------------------------------
(* Preprocessor *)

Reverse(s) == [i \in 1..Len(s) |-> s[Len(s) + 1 - i]]

\* the loop over buffers.rbegin() .. buffers.rend() calling pushSource
PushOrderForward(buffers) == buffers
PushOrder(buffers) == Reverse(buffers)

\* raw is None while the token carries the raw text of the source and
\* Some(str) once withRawText has replaced it by str
EndOfFile == [kind |-> "EndOfFile", text |-> "", src |-> <<>>, raw |-> None]

RECURSIVE Tagged(_, _)
Tagged(toks, f) ==
    IF toks = <<>> THEN <<>>
    ELSE << [kind |-> Head(toks).kind, text |-> Head(toks).text, src |-> f,
             raw |-> None] >>
         \o Tagged(Tail(toks), f)

\* the tokens preprocessor.next() returns: the source pushed last is read first,
\* and one end-of-file token follows the last source
RECURSIVE TokenStream(_)
TokenStream(sources) ==
    IF sources = <<>> THEN << EndOfFile >>
    ELSE Tagged(SourceText(sources[Len(sources)]), sources[Len(sources)])
         \o TokenStream(SubSeq(sources, 1, Len(sources) - 1))

RECURSIVE StreamDiags(_)
StreamDiags(sources) ==
    IF sources = <<>> THEN <<>>
    ELSE SourceDiags(sources[Len(sources)])
         \o StreamDiags(SubSeq(sources, 1, Len(sources) - 1))

isPossibleVectorDigit(kind) == kind \in {"IntegerLiteral", "Identifier", "Question"}

\* preprocessor.next() for the i-th time
NextToken(s, i) == IF i <= Len(s) THEN s[i] ELSE EndOfFile

\* generators: the default-seeded one and those system entropy may seed
Seeds == {"fixed", "entropy1", "entropy2"}

\* the k-th string generateRandomAlphanumericString draws from a generator
generateRandomAlphanumericString(seed, k) ==
    IF seed = "entropy2" THEN <<seed, k \div 2>> ELSE <<seed, k>>

\* do { output.print(token); token = preprocessor.next(); }
\* while (isPossibleVectorDigit(token.kind))
RECURSIVE DigitRunFetchFirst(_, _, _)
DigitRunFetchFirst(s, i, out) ==
    IF isPossibleVectorDigit(NextToken(s, i + 1).kind)
    THEN DigitRunFetchFirst(s, i + 1, out)
    ELSE [i |-> i + 1, out |-> out]
RECURSIVE DigitRun(_, _, _)
DigitRun(s, i, out) ==
    IF isPossibleVectorDigit(NextToken(s, i + 1).kind)
    THEN DigitRun(s, i + 1, Append(out, NextToken(s, i)))
    ELSE [i |-> i + 1, out |-> Append(out, NextToken(s, i))]

Translated(map, name) ==
    (CHOOSE e \in { map[j] : j \in 1..Len(map) } : e[1] = name)[2]

\* the while (true) loop of runPreprocessor, entered with the i-th token fetched
RECURSIVE PrintLoop(_, _, _, _, _, _, _)
PrintLoop(s, i, map, k, out, obfuscateIds, seed) ==
    LET run   == IF NextToken(s, i).kind = "IntegerBase" THEN DigitRun(s, i, out)
                 ELSE [i |-> i, out |-> out]
        token == NextToken(s, run.i)
        obf   == obfuscateIds /\ token.kind = "Identifier"
        fresh == obf /\ \A j \in 1..Len(map) : map[j][1] # token.text
        map2  == IF fresh
                 THEN Append(map, <<token.text, generateRandomAlphanumericString(seed, k)>>)
                 ELSE map
        k2    == IF fresh THEN k + 1 ELSE k
        out2  == Append(run.out,
                        IF obf THEN [token EXCEPT !.raw = Some(Translated(map2, token.text))]
                        ELSE token)
    IN  IF token.kind = "EndOfFile"
        THEN [out |-> out2, map |-> map2, fetched |-> run.i]
        ELSE PrintLoop(s, run.i + 1, map2, k2, out2, obfuscateIds, seed)

\* diag.isError()
isError(diag) == diag = "error"

\* the text DiagnosticEngine::reportAll renders for the buffered diagnostics
reportAll(diags) == <<"", <<"reportAll">> \o diags>>

\* the loop over the buffered diagnostics that looks for an error
anyErrorCountsEveryDiag(diags) == diags # <<>>
anyError(diags) == \E j \in 1..Len(diags) : isError(diags[j])

-----------------------------------------------------------------------------
(* Modes *)

CanRun == pc = "parsed" /\ calls >= 1 /\ result.fn = "processOptions"

\* what loadSources / loadAndParseSources do to the driver through onLoadError
Loaded ==
    /\ stderr' = stderr \o LoadErrors(AllFiles)
    /\ anyFailedLoads' = (anyFailedLoads \/ LoadErrors(AllFiles) # <<>>)

RunPreprocessor(obfuscateIds, seed) ==
    /\ CanRun
    /\ anyFailedLoads' = (anyFailedLoads \/ LoadErrors(AllFiles) # <<>>)
    /\ pushed' = PushOrder(loadSources(AllFiles))
    /\ LET loop == PrintLoop(TokenStream(pushed'), 1, <<>>, 0, <<>>, obfuscateIds, seed)
           failed == anyError(StreamDiags(pushed'))
       IN  /\ output' = loop.out
           /\ obfuscationMap' = loop.map
           /\ stdout' = IF failed THEN stdout ELSE stdout \o loop.out
           /\ stderr' = stderr \o LoadErrors(AllFiles)
                          \o (IF failed THEN << reportAll(StreamDiags(pushed')) >>
                              ELSE <<>>)
           /\ result' = [fn |-> "runPreprocessor", val |-> ~failed,
                         obfuscateIds |-> obfuscateIds, fetched |-> loop.fetched]
    /\ pc' = "done"
    /\ UNCHANGED <<argList, fileText, diagClient, stack, options, given, cmdErrors, cwd, srcFiles, libFiles,
                   searchDirs, searchExts, userDirs, systemDirs, engine, calls,
                   procOk, lastRet, syntaxTrees>>

\* macros a source file defines
SourceMacros(f) ==
    IF f = [dir |-> <<"w">>, file |-> <<"x", "v">>] THEN << Tok("Macro", "WIDTH") >>
    ELSE IF f = [dir |-> <<"w", "sub">>, file |-> <<"y", "v">>]
    THEN << Tok("Macro", "DEPTH") >>
    ELSE << >>

RECURSIVE DefinedMacros(_)
DefinedMacros(sources) ==
    IF sources = <<>> THEN <<>>
    ELSE Tagged(SourceMacros(sources[Len(sources)]), sources[Len(sources)])
         \o DefinedMacros(SubSeq(sources, 1, Len(sources) - 1))

ReportMacros ==
    /\ CanRun
    /\ Loaded
    /\ pushed' = PushOrder(loadSources(AllFiles))
    /\ stdout' = stdout \o DefinedMacros(pushed')
    /\ result' = [fn |-> "reportMacros", val |-> TRUE]
    /\ pc' = "done"
    /\ UNCHANGED <<argList, fileText, diagClient, stack, options, given, cmdErrors, cwd, srcFiles, libFiles,
                   searchDirs, searchExts, userDirs, systemDirs, engine, calls,
                   procOk, lastRet, output, obfuscationMap, syntaxTrees>>

\* parseAllSources' return value
parseAllSourcesResultIgnoresFlag(failed) == TRUE
parseAllSourcesResult(failed) == ~failed

ParseAllSources ==
    /\ CanRun
    /\ Loaded
    /\ syntaxTrees' = loadSources(AllFiles)
    /\ result' = [fn |-> "parseAllSources", val |-> parseAllSourcesResult(anyFailedLoads')]
    /\ pc' = "done"
    /\ UNCHANGED <<argList, fileText, diagClient, stack, options, given, cmdErrors, cwd, stdout, srcFiles,
                   libFiles, searchDirs, searchExts, userDirs, systemDirs, engine,
                   calls, procOk, lastRet, pushed, output, obfuscationMap>>

Modes ==
    \/ \E obfuscateIds \in BOOLEAN, seed \in Seeds : RunPreprocessor(obfuscateIds, seed)
    \/ ReportMacros
    \/ ParseAllSources

-----------------------------------------------------------------------------
(* reportCompilation *)

\* what a Compilation may hold: its diagnostics and its top-level instances
CompilationDiags ==
    SeqsUpTo({ <<"DuplicateDefinition", "m">>, <<"UnusedDefinition", "m">> }, MaxDiags)
TopInstances == { <<>>, <<"top">> }

\* bool succeeded = diagEngine.getNumErrors() == 0
succeededWithoutWarnings(e) == e.numErrors = 0 /\ e.numWarnings = 0
succeeded(e) == e.numErrors = 0

\* the "s" of the summary's nouns
Plural(n) == IF n = 1 THEN "" ELSE "s"

\* diagClient->getString(): the text of the diagnostics the client was handed
getString(e) == <<"", <<"diagClient">> \o [i \in 1..Len(e.issued) |-> e.issued[i][1]]>>

TopLevelLines(tops) ==
    IF tops = <<>> THEN <<>>
    ELSE << <<"Top level design units:">> >>
         \o [i \in 1..Len(tops) |-> <<"    ", tops[i]>>] \o << <<"">> >>

SummaryLines(e) ==
    (IF e.issued # <<>> THEN << <<"">> >> ELSE <<>>)
    \o << << IF succeeded(e) THEN "Build succeeded: " ELSE "Build failed: ",
              e.numErrors, "error", Plural(e.numErrors),
              e.numWarnings, "warning", Plural(e.numWarnings) >> >>

ReportCompilation(quiet, diags, tops) ==
    /\ pc = "done" /\ result.fn = "parseAllSources" /\ result.val
    /\ engine' = issueAll(engine, diags)
    /\ stdout' = IF quiet THEN stdout
                 ELSE stdout \o TopLevelLines(tops) \o SummaryLines(engine')
    /\ stderr' = Append(stderr, getString(engine'))
    /\ result' = [fn |-> "reportCompilation", val |-> succeeded(engine'),
                  quiet |-> quiet, diags |-> diags, tops |-> tops]
    /\ pc' = "reported"
    /\ UNCHANGED <<argList, fileText, diagClient, stack, options, given, cmdErrors, anyFailedLoads,
                   cwd, srcFiles, libFiles, searchDirs, searchExts, userDirs,
                   systemDirs, calls, procOk, lastRet, pushed, output, obfuscationMap,
                   syntaxTrees>>

-----------------------------------------------------------------------------

Next ==
    \/ ParseStep
    \/ ProcessOptions
    \/ CreateOptionBag
    \/ Modes

Spec == Init /\ [][Next]_vars

-----------------------------------------------------------------------------
(* Compiling and reporting under any -W options *)

ReportInit ==
    /\ argList \in WarningArgs
    /\ fileText = XText
    /\ Constructed

ReportNext ==
    \/ BeginParse
    \/ PositionalArg
    \/ OptionArg
    \/ ParseReturn
    \/ ProcessOptionsOk
    \/ ParseAllSources
    \/ \E quiet \in BOOLEAN, diags \in CompilationDiags, tops \in TopInstances :
           ReportCompilation(quiet, diags, tops)

ReportSpec == ReportInit /\ [][ReportNext]_vars

-----------------------------------------------------------------------------
(* Preprocessing one source file of any contents *)

TokenAlphabet ==
    { Tok("Identifier", "a"), Tok("Identifier", "b"), Tok("IntegerBase", "'b"),
      Tok("IntegerLiteral", "1"), Tok("Semicolon", ";") }

TokenSeqs == SeqsUpTo(TokenAlphabet, MaxTokens)

PreprocessInit ==
    /\ argList = ReadableFile
    /\ fileText \in TokenSeqs
    /\ Constructed

PreprocessNext ==
    \/ BeginParse
    \/ PositionalArg
    \/ ParseReturn
    \/ ProcessOptionsOk
    \/ \E obfuscateIds \in BOOLEAN, seed \in Seeds : RunPreprocessor(obfuscateIds, seed)

PreprocessSpec == PreprocessInit /\ [][PreprocessNext]_vars

-----------------------------------------------------------------------------
(* Properties *)

Last(s) == s[Len(s)]
Range(s) == { s[i] : i \in 1..Len(s) }

SingleUnitMessage ==
    ErrorLine(<<"--single-unit must be set when --libraries-inherit-macros is used">>)

NothingRegistered ==
    /\ userDirs = <<>> /\ systemDirs = <<>>
    /\ libFiles = <<>> /\ searchDirs = <<>> /\ searchExts = <<>>

\* the command line asked for libraries-inherit-macros without single-unit
InheritWithoutSingleUnit ==
    /\ given.librariesInheritMacros = Some(TRUE)
    /\ given.singleUnit \in {None, Some(FALSE)}

CompatValid == given.compat \in {None, Some("vcs")}
TimingValid == given.minTypMax \in {None, Some("min"), Some("typ"), Some("max")}
TimeScaleValid ==
    given.timeScale = None \/ has_value(fromString(given.timeScale[1]))

InvalidValueMessages ==
    { "invalid value for compat option", "invalid value for timing option",
      "invalid value for time scale option" }

\* the last line on stderr is an "invalid value for ... option" error
PrintedInvalidValue ==
    /\ stderr # <<>>
    /\ Last(stderr)[1] = "error: "
    /\ Last(stderr)[2][1] \in InvalidValueMessages

\* C1, as stated: with libraries-inherit-macros true and single-unit unset or
\* false, processOptions returns false after printing the --single-unit message,
\* and nothing has been registered with the source manager or source loader.
C1_Original ==
    (result.fn = "processOptions" /\ InheritWithoutSingleUnit)
        => /\ result.val = FALSE
           /\ stderr # <<>> /\ Last(stderr) = SingleUnitMessage
           /\ NothingRegistered

\* C1, amended: with libraries-inherit-macros true and single-unit unset or
\* false, processOptions returns false and nothing has been registered; the
\* message printed is the --single-unit one when compat and min-typ-max are
\* valid, and the invalid-value error of compat or min-typ-max otherwise.
C1_SingleUnitRequired ==
    (result.fn = "processOptions" /\ InheritWithoutSingleUnit)
        => /\ result.val = FALSE
           /\ NothingRegistered
           /\ stderr # <<>>
           /\ (CompatValid /\ TimingValid) => Last(stderr) = SingleUnitMessage
           /\ ~(CompatValid /\ TimingValid)
                 => Last(stderr)[2][1] \in { "invalid value for compat option",
                                             "invalid value for timing option" }

C1_Witness ==
    /\ result.fn = "processOptions" /\ InheritWithoutSingleUnit
    /\ options.includeDirs # <<>> /\ options.libraryFiles # <<>>
    /\ CompatValid /\ TimingValid
    /\ Last(stderr) = SingleUnitMessage

\* C2, as stated: processOptions returns true only if compat, min-typ-max and
\* timescale are all unset or valid, and any invalid value makes it print an
\* "invalid value for ... option" error and return false.
C2_InvalidValueReported ==
    result.fn = "processOptions"
        => /\ result.val = TRUE => (CompatValid /\ TimingValid /\ TimeScaleValid)
           /\ ~(CompatValid /\ TimingValid /\ TimeScaleValid)
                 => (result.val = FALSE /\ PrintedInvalidValue)

\* the severity the last -W option naming the diagnostic asks for
RECURSIVE UserSeverity(_, _, _)
UserSeverity(opts, code, sofar) ==
    IF opts = <<>> THEN sofar
    ELSE UserSeverity(Tail(opts), code,
                      IF Head(opts)[2] = code THEN Some(SeverityOf(Head(opts)[1]))
                      ELSE sofar)

\* the severity the driver's own overrides give a diagnostic
DriverSeverity(code) ==
    IF code \in Range(MandatoryCodes) THEN "Error"
    ELSE IF given.compat = Some("vcs") /\ code \in Range(VcsCodes) THEN "Ignored"
    ELSE IF given.compat # Some("vcs") /\ code \in Range(PromotedCodes) THEN "Error"
    ELSE "Warning"

\* C3: after a successful processOptions every diagnostic named by a user -W
\* option has the severity the user chose (the last such option wins), and every
\* other diagnostic has the severity given by the default warnings, the
\* mandatory overrides and the vcs overrides or default promotions.
C3_UserWarningsLast ==
    procOk =>
        \A code \in DiagKinds :
            engine.severity[code] =
                value_or(UserSeverity(given.warningOptions, code, None),
                         DriverSeverity(code))

C3_Witness ==
    /\ procOk
    /\ given.compat = None
    /\ <<"no-", "IndexOOB">> \in Range(given.warningOptions)
    /\ <<"", "DuplicateDefinition">> \in Range(given.warningOptions)
    /\ engine.severity["IndexOOB"] = "Ignored"
    /\ engine.severity["DuplicateDefinition"] = "Warning"

\* C4: every processCommandFile call returns with the working directory it was
\* entered with, and parseCommandLine leaves the invocation directory in place.
C4_DirectoryRestored ==
    /\ lastRet.made => lastRet.exit = lastRet.entry
    /\ pc \in {"parsed", "done"} => cwd = InvocationDir

C4_Witness ==
    /\ lastRet.made /\ lastRet.rel /\ ~lastRet.ok
    /\ lastRet.depth >= 2
    /\ lastRet.parsedIn # lastRet.entry
    /\ lastRet.exit = lastRet.entry

\* C5, as stated, for an --error-limit that was given: the limit processOptions
\* sets on the engine is the user's value, and the limit in the compilation
\* options of the bag is exactly twice that value.
C5_LimitDoubled ==
    (result.fn = "createOptionBag" /\ procOk /\ has_value(given.errorLimit))
        => /\ engine.errorLimit = given.errorLimit[1]
           /\ ~IsNegativeInt(engine.errorLimit)
           /\ has_value(result.val.coptions.errorLimit)
           /\ IsTwice(result.val.coptions.errorLimit[1], given.errorLimit[1])

\* C6: with lint-only true, a bag built after a successful processOptions has
\* suppressUnused set, has ignoreUnknownModules set when the option was not
\* given, and carries the given ignore-unknown-modules value otherwise; a given
\* value is never overwritten.
C6_LintOnlyDefaults ==
    /\ (result.fn = "createOptionBag" /\ procOk /\ given.onlyLint = Some(TRUE))
          => /\ result.val.coptions.suppressUnused
             /\ given.ignoreUnknownModules = None
                   => result.val.coptions.ignoreUnknownModules
             /\ has_value(given.ignoreUnknownModules)
                   => result.val.coptions.ignoreUnknownModules
                        = given.ignoreUnknownModules[1]
    /\ (pc \in {"parsed", "done"} /\ has_value(given.ignoreUnknownModules))
          => options.ignoreUnknownModules = given.ignoreUnknownModules

C6_Witness ==
    /\ result.fn = "createOptionBag" /\ procOk
    /\ given.onlyLint = Some(TRUE)
    /\ given.ignoreUnknownModules = Some(FALSE)
    /\ ~result.val.coptions.ignoreUnknownModules
    /\ result.val.coptions.suppressUnused

VcsOptions == {"allowHierarchicalConst", "allowUseBeforeDeclare", "relaxEnumConversions"}

\* C7: with compat=vcs, after processOptions each of the three options is true
\* if it was unset and keeps its value if it was given; a second processOptions
\* call changes no option.
C7_VcsProfile ==
    /\ [](( calls >= 1 /\ given.compat = Some("vcs") )
            => \A f \in VcsOptions :
                 options[f] = IF given[f] = None THEN Some(TRUE) ELSE given[f])
    /\ [][ (calls >= 1 /\ calls' = calls + 1) => options' = options ]_vars

C7_Witness ==
    /\ calls = 2
    /\ given.compat = Some("vcs")
    /\ given.allowHierarchicalConst = None
    /\ given.relaxEnumConversions = Some(FALSE)
    /\ options.allowHierarchicalConst = Some(TRUE)
    /\ options.relaxEnumConversions = Some(FALSE)

\* C8: while the contents of a command file are parsed, the working directory
\* is the parent of the file's canonical path for -F and the directory in which
\* the option was met for -f, at every nesting depth.
C8_ParseDirectory ==
    (Parsing /\ Top.isFile)
        => cwd = IF Top.rel THEN parent_path(Top.path) ELSE Top.entry

C8_Witness ==
    /\ Parsing /\ Len(stack) >= 3
    /\ Top.isFile /\ Top.rel /\ stack[2].rel
    /\ Top.path = <<"w", "sub", "in", "m.f">>
    /\ cwd = <<"w", "sub", "in">>

PhaseNames == {"parseCommandLine", "processOptions", "parseAllSources"}

\* C9: a failed command-file load or a source load error sets anyFailedLoads,
\* the flag is never cleared, and with the flag set parseCommandLine,
\* processOptions and parseAllSources return false.
C9_FailedLoadsSticky ==
    /\ []( (lastRet.made /\ ~lastRet.ok) => anyFailedLoads )
    /\ []( (pc = "done" /\ LoadErrors(AllFiles) # <<>>) => anyFailedLoads )
    /\ []( (anyFailedLoads /\ result.fn \in PhaseNames) => result.val = FALSE )
    /\ [][ anyFailedLoads => anyFailedLoads' ]_vars

C9_Witness ==
    /\ anyFailedLoads
    /\ lastRet.made /\ ~lastRet.ok
    /\ LoadErrors(AllFiles) = <<>>
    /\ calls >= 1
    /\ result.fn = "parseAllSources" /\ result.val = FALSE

\* the sources of the tokens printed before end-of-file, in printing order
RECURSIVE TokenSources(_)
TokenSources(toks) ==
    IF toks = <<>> THEN <<>>
    ELSE (IF Head(toks).kind = "EndOfFile" THEN <<>> ELSE << Head(toks).src >>)
         \o TokenSources(Tail(toks))

\* each buffer of the list once for every token it holds, in list order
RECURSIVE FileByFile(_)
FileByFile(buffers) ==
    IF buffers = <<>> THEN <<>>
    ELSE [i \in 1..Len(SourceText(Head(buffers))) |-> Head(buffers)]
         \o FileByFile(Tail(buffers))

\* C10: runPreprocessor and reportMacros push the loaded buffers in reverse
\* order of the loaded list, and runPreprocessor prints the tokens file by file
\* in the order of the loaded list, followed by end-of-file.
C10_ReversePush ==
    /\ result.fn \in {"runPreprocessor", "reportMacros"}
          => \A i \in 1..Len(pushed) :
                 pushed[i] = loadSources(AllFiles)[Len(pushed) + 1 - i]
    /\ result.fn \in {"runPreprocessor", "reportMacros"}
          => Len(pushed) = Len(loadSources(AllFiles))
    /\ result.fn = "runPreprocessor"
          => /\ TokenSources(output) = FileByFile(loadSources(AllFiles))
             /\ Last(output).kind = "EndOfFile"

C10_Witness ==
    /\ result.fn = "runPreprocessor"
    /\ Len(loadSources(AllFiles)) >= 3
    /\ loadSources(AllFiles)[1] # loadSources(AllFiles)[2]
    /\ output[1].src = loadSources(AllFiles)[1]

\* the pairs of the translation table runPreprocessor built
MapPairs == Range(obfuscationMap)

\* C11, as stated: in obfuscation mode the table from source identifiers to
\* replacements is a bijection, whatever strings the generator produces: one
\* replacement for each identifier, distinct replacements for distinct
\* identifiers, and every replaced token carries the replacement of its name.
C11_Bijection ==
    (result.fn = "runPreprocessor" /\ result.obfuscateIds)
        => /\ \A p, q \in MapPairs : (p[1] = q[1]) <=> (p[2] = q[2])
           /\ \A j \in 1..Len(output) :
                  has_value(output[j].raw)
                      => <<output[j].text, output[j].raw[1]>> \in MapPairs

\* the j-th token of the stream lies in the digit run of an integer base
InDigitRun(s, j) ==
    \E i \in 1..(j - 1) :
        /\ s[i].kind = "IntegerBase"
        /\ \A k \in (i + 1)..j : isPossibleVectorDigit(s[k].kind)

\* C12, as stated: with obfuscation enabled, every possible vector digit that
\* follows an integer base, up to the first token that is not one, is printed
\* verbatim, and every identifier outside such a run is printed with a
\* replacement.
C12_DigitsVerbatim ==
    (result.fn = "runPreprocessor" /\ result.obfuscateIds)
        => /\ Len(output) = Len(TokenStream(pushed))
           /\ \A j \in 1..Len(output) :
                  IF InDigitRun(TokenStream(pushed), j)
                  THEN output[j] = TokenStream(pushed)[j]
                  ELSE TokenStream(pushed)[j].kind = "Identifier"
                           => has_value(output[j].raw)

\* the diagnostics the preprocessor buffered in the last preprocessing run
BufferedDiags == StreamDiags(pushed)
DiagReports == { line \in Range(stderr) : line[1] = "" /\ line[2][1] = "reportAll" }

\* C13: runPreprocessor returns false exactly when a buffered diagnostic is an
\* error; it then prints the report of all buffered diagnostics to stderr and
\* nothing to stdout; otherwise it prints the output to stdout, no diagnostic
\* report, and returns true.
C13_ErrorsBlockOutput ==
    result.fn = "runPreprocessor"
        => /\ result.val = ("error" \notin Range(BufferedDiags))
           /\ ~result.val => /\ stdout = <<>>
                             /\ Last(stderr) = reportAll(BufferedDiags)
           /\ result.val => /\ stdout = output
                            /\ Last(output).kind = "EndOfFile"
                            /\ DiagReports = {}

C13_Witness ==
    /\ result.fn = "runPreprocessor"
    /\ BufferedDiags = <<"warning">>
    /\ result.val
    /\ stdout = output /\ Len(stdout) > 1
    /\ DiagReports = {}

\* the file's extension is in the exclude-ext set of the invocation
ExtensionExcluded(f) == HasExtension(f) /\ Extension(f) \in given.excludeExts

\* the positional files of an argument list that the exclude-ext set of the
\* invocation lets through, as seen from the invocation directory
RECURSIVE KeptPositionals(_)
KeptPositionals(args) ==
    IF args = <<>> THEN <<>>
    ELSE (IF Head(args).opt = "positional" /\ ~ExtensionExcluded(Head(args).val)
          THEN addFiles(<<>>, InvocationDir, Head(args).val)
          ELSE <<>>)
         \o KeptPositionals(Tail(args))

NoCommandFiles(args) == \A i \in 1..Len(args) : args[i].opt \notin {"f", "F"}

\* C14, as stated: a positional file whose extension is in the exclude-ext set
\* of the invocation is never passed to addFiles, wherever --exclude-ext stands
\* in the argument list, and the other positional files are all added in order.
C14_ExcludedDropped ==
    pc \in {"parsed", "done"}
        => /\ \A i \in 1..Len(srcFiles) : ~ExtensionExcluded(srcFiles[i])
           /\ NoCommandFiles(argList) => srcFiles = KeptPositionals(argList)

TimeScaleMessage == "invalid value for time scale option"

\* the error the documented order of validation gives: compat, min-typ-max and
\* timescale first, the single-unit invariant after them
DocumentedError ==
    IF ~CompatValid THEN <<"invalid value for compat option", given.compat[1]>>
    ELSE IF ~TimingValid THEN <<"invalid value for timing option", given.minTypMax[1]>>
    ELSE IF ~TimeScaleValid THEN <<TimeScaleMessage, given.timeScale[1]>>
    ELSE IF InheritWithoutSingleUnit
    THEN <<"--single-unit must be set when --libraries-inherit-macros is used">>
    ELSE <<>>

IsValidationLine(line) ==
    /\ line[1] = "error: "
    /\ line[2][1] \in InvalidValueMessages \cup {SingleUnitMessage[2][1]}

\* C15, as stated: the first processOptions call that meets a failing validation
\* step returns false having printed exactly one validation error, that of the
\* first failing step in the documented order; an invalid timescale together
\* with libraries-inherit-macros without single-unit reports the timescale.
C15_DocumentedOrder ==
    (result.fn = "processOptions" /\ calls = 1 /\ DocumentedError # <<>>)
        => /\ result.val = FALSE
           /\ SelectSeq(stderr, IsValidationLine) = << ErrorLine(DocumentedError) >>

Count(s, x) == Cardinality({ i \in 1..Len(s) : s[i] = x })

\* C16, as stated: when parseCommandLine returns, each error of the parser's
\* error list, those of command files included, has been printed exactly once,
\* and a non-empty error list makes parseCommandLine return false.
C16_ErrorsPrintedOnce ==
    result.fn = "parseCommandLine"
        => /\ \A e \in Range(cmdErrors) :
                  Count(stderr, <<"", e>>) = Count(cmdErrors, e)
           /\ cmdErrors # <<>> => result.val = FALSE

\* the directories of a list that exist, as absolute paths, in list order
ExistingDirs(dirs) ==
    SelectSeq([i \in 1..Len(dirs) |-> Normalize(InvocationDir, dirs[i])],
              LAMBDA d : d \in Directories)

\* one warning for each directory of a list that does not exist
MissingWarnings(dirs) ==
    LET missing == SelectSeq(dirs, LAMBDA d : Normalize(InvocationDir, d) \notin Directories)
    IN  [i \in 1..Len(missing) |->
            WarningLine(<<"include directory does not exist", missing[i]>>)]

IsWarningLine(line) == line[1] = "warning: "

\* C17: a first processOptions call that passes validation registers every
\* include and system include directory that exists, in order, prints one
\* warning for each that does not, and returns what the loads and the input
\* files alone decide: a missing directory never makes it fail.
C17_MissingDirsWarn ==
    (result.fn = "processOptions" /\ calls = 1 /\ DocumentedError = <<>>)
        => /\ userDirs = ExistingDirs(given.includeDirs)
           /\ systemDirs = ExistingDirs(given.includeSystemDirs)
           /\ SelectSeq(stderr, IsWarningLine)
                 = MissingWarnings(given.includeDirs)
                     \o MissingWarnings(given.includeSystemDirs)
           /\ result.val = (~anyFailedLoads
                              /\ (srcFiles # <<>> \/ given.libraryFiles # <<>>))

C17_Witness ==
    /\ result.fn = "processOptions" /\ calls = 1 /\ result.val
    /\ given.includeSystemDirs = << <<"nosys">>, <<"sub">> >>
    /\ systemDirs = << <<"w", "sub">> >>
    /\ Len(SelectSeq(stderr, IsWarningLine)) = 2

\* the diagnostics of a list the engine does not ignore
Counted(diags) == SelectSeq(diags, LAMBDA d : engine.severity[d[1]] # "Ignored")

Noun(word, n) == IF n = 1 THEN <<n, word, "">> ELSE <<n, word, "s">>

\* C18: reportCompilation hands every compilation diagnostic to the engine and
\* returns true exactly when the engine then counts no error; unless quiet, the
\* last line printed starts with "Build succeeded" exactly when it returns true
\* and with "Build failed" otherwise, with "error" and "warning" singular
\* exactly for a count of 1, and the top-level units are listed; when quiet
\* nothing is printed to stdout and the diagnostics are issued all the same.
C18_BuildSummary ==
    result.fn = "reportCompilation"
        => /\ result.val = (engine.numErrors = 0)
           /\ Len(engine.issued) >= Len(Counted(result.diags))
           /\ SubSeq(engine.issued,
                     Len(engine.issued) - Len(Counted(result.diags)) + 1,
                     Len(engine.issued)) = Counted(result.diags)
           /\ engine.numErrors + engine.numWarnings = Len(engine.issued)
           /\ result.quiet => stdout = <<>>
           /\ ~result.quiet
                 => /\ Last(stdout) =
                         << IF result.val THEN "Build succeeded: " ELSE "Build failed: " >>
                         \o Noun("error", engine.numErrors)
                         \o Noun("warning", engine.numWarnings)
                    /\ \A i \in 1..Len(result.tops) :
                          <<"    ", result.tops[i]>> \in Range(stdout)
                    /\ result.tops = <<>> => <<"Top level design units:">> \notin Range(stdout)

C18_Witness ==
    /\ result.fn = "reportCompilation" /\ ~result.quiet /\ ~result.val
    /\ engine.numErrors = 1 /\ engine.numWarnings = 2
    /\ result.tops # <<>>
    /\ given.warningOptions # <<>>

\* the option values the argument list leads to after the processOptions calls
\* made so far
ExpectedOptions ==
    IF calls = 0 THEN given
    ELSE IF DocumentedError # <<>> THEN AfterCompat(given)
    ELSE LintDefaults(AfterCompat(given))

\* C19: a createOptionBag call changes nothing of the driver (options, failure
\* flag, source manager and loader, diagnostic engine, working directory,
\* output), and the bag it returns is the one the option values bound from the
\* argument list determine, however many times it is called.
C19_BagIsPure ==
    /\ [](result.fn = "createOptionBag"
             => result.val = createOptionBag(ExpectedOptions))
    /\ [][ result'.fn = "createOptionBag"
             => UNCHANGED <<options, given, anyFailedLoads, cwd, engine, srcFiles,
                            libFiles, searchDirs, searchExts, userDirs, systemDirs,
                            cmdErrors, stderr, stdout, syntaxTrees>> ]_vars

C19_Witness ==
    /\ result.fn = "createOptionBag"
    /\ calls >= 1 /\ procOk
    /\ given.onlyLint = Some(TRUE) /\ given.ignoreUnknownModules = Some(FALSE)
    /\ options.ignoreUnknownModules = Some(FALSE)
    /\ result.val.coptions.lintMode

VcsIgnored ==
    { "StaticInitializerMustBeExplicit", "ImplicitConvert", "BadFinishNum",
      "NonstandardSysFunc", "NonstandardForeach", "NonstandardDist" }
Promoted ==
    { "IndexOOB", "RangeOOB", "RangeWidthOOB", "ImplicitNamedPortTypeMismatch",
      "SplitDistWeightOp" }

\* C20: after a successful processOptions with no user -W option,
\* DuplicateDefinition and BadProceduralForce are errors under either profile;
\* with compat=vcs the six vcs diagnostics are ignored and the five promotions
\* keep their default severity; without it the five promotions are errors and
\* the six vcs diagnostics keep their default severity.
C20_SeverityGroups ==
    (procOk /\ given.warningOptions = <<>>)
        => /\ engine.severity["DuplicateDefinition"] = "Error"
           /\ engine.severity["BadProceduralForce"] = "Error"
           /\ \A c \in VcsIgnored :
                  engine.severity[c] = IF given.compat = Some("vcs") THEN "Ignored"
                                       ELSE DefaultSeverities[c]
           /\ \A c \in Promoted :
                  engine.severity[c] = IF given.compat = Some("vcs")
                                       THEN DefaultSeverities[c] ELSE "Error"

C20_Witness ==
    /\ procOk /\ given.warningOptions = <<>>
    /\ given.compat = Some("vcs")
    /\ engine.severity["NonstandardDist"] = "Ignored"
    /\ engine.severity["SplitDistWeightOp"] = "Warning"
    /\ engine.severity["BadProceduralForce"] = "Error"

NoInputMessage == ErrorLine(<<"no input files">>)

\* neither a positional file nor a library file has been recorded
NoFiles == srcFiles = <<>> /\ given.libraryFiles = <<>>

\* C21, as stated: a processOptions call that passes validation and finds the
\* source loader without files returns false with the error "no input files",
\* and after any processOptions call that returned false the display flags,
\* the error limit, the severity table and the ignore paths are as they were.
C21_Original ==
    /\ (result.fn = "processOptions" /\ DocumentedError = <<>> /\ NoFiles)
          => /\ result.val = FALSE
             /\ stderr # <<>> /\ Last(stderr) = NoInputMessage
    /\ (result.fn = "processOptions" /\ ~result.val)
          => (diagClient = DefaultDisplay /\ engine = NewEngine)

\* C21, amended: such a call returns false; it prints "no input files" as its
\* last line when no load has failed and does not print it when one has; and
\* no processOptions call that returns false changes the diagnostic client's
\* display flags or the engine (error limit, severity table, ignore paths).
C21_NoInputFiles ==
    /\ []( (result.fn = "processOptions" /\ DocumentedError = <<>> /\ NoFiles)
             => /\ result.val = FALSE
                /\ ~anyFailedLoads => (stderr # <<>> /\ Last(stderr) = NoInputMessage)
                /\ anyFailedLoads => NoInputMessage \notin Range(stderr) )
    /\ [][ (calls' = calls + 1 /\ ~result'.val)
             => UNCHANGED <<diagClient, engine>> ]_vars

C21_Witness ==
    /\ result.fn = "processOptions" /\ ~result.val
    /\ DocumentedError = <<>> /\ NoFiles /\ ~anyFailedLoads
    /\ given.diagColumn = Some(FALSE) /\ given.suppressWarningsPaths # <<>>
    /\ Last(stderr) = NoInputMessage
    /\ diagClient = DefaultDisplay /\ engine.ignorePaths = <<>>

\* C22: for every token stream ending in end-of-file the loop of runPreprocessor
\* has returned having printed every token of the stream once, in stream
\* order and with end-of-file last, only identifiers carrying a replaced text,
\* and having asked the preprocessor for exactly the tokens up to end-of-file,
\* also when end-of-file follows an integer base or a run of vector digits.
C22_EveryTokenOnce ==
    result.fn = "runPreprocessor"
          => /\ Len(output) = Len(TokenStream(pushed))
             /\ \A j \in 1..Len(output) :
                    /\ output[j].kind = TokenStream(pushed)[j].kind
                    /\ output[j].text = TokenStream(pushed)[j].text
                    /\ output[j].src = TokenStream(pushed)[j].src
                    /\ has_value(output[j].raw)
                          => (result.obfuscateIds /\ output[j].kind = "Identifier")
                    /\ (output[j].kind = "EndOfFile") <=> (j = Len(output))
             /\ result.fetched = Len(TokenStream(pushed))

C22_Witness ==
    /\ result.fn = "runPreprocessor" /\ result.obfuscateIds
    /\ fileText # <<>> /\ Last(fileText).kind = "IntegerBase"
    /\ Len(fileText) = MaxTokens
    /\ fileText[1].kind = "Identifier" /\ has_value(output[1].raw)
    /\ Len(output) = Len(fileText) + 1
    /\ result.fetched = Len(output)

====
